---- MODULE Spec2Model ----
(***************************************************************************)
(* A model of lti_auth/views.py of django-lti-provider: the LTI launch     *)
(* pipeline of LTIAuthMixin.dispatch (authenticate, course-context         *)
(* resolution, join_groups, login), the routing of LTIRoutingView.post and  *)
(* the course-enable form of LTICourseEnableView.                           *)
(*                                                                         *)
(* Text is modelled as a sequence of one-character strings, so that        *)
(* str.lower(), the `in` substring test and str.format() are computed and  *)
(* not assumed.                                                            *)
(***************************************************************************)
EXTENDS Integers, Sequences, FiniteSets, TLC

VARIABLES
    LTI_AUTHENTICATE,   \* settings.LTI_AUTHENTICATE: "absent", "false" or "true"
    contexts,           \* the LTICourseContext table
    groupsOf,           \* user.groups of every LTI user
    session,            \* request.session of the browser the requests come from
    elevatedSeen,       \* history: users whose successful launch carried an elevated role
    last,               \* history: the handler that ran last, its request and its calls
    jin, jout, jfirst, japplied,
                        \* join_groups on its own: inputs, groups now, groups after the
                        \* first application, number of applications
    rin, rout,          \* LTIRoutingView.post on its own: request/settings, response
    rows, epc, eform, epk, ehist,
                        \* concurrent LTICourseEnableView.post: the table with its
                        \* primary keys, and per request its position, form and ctx.pk;
                        \* history of key conflicts and saves
    nonceCache, replayed,
                        \* the verifier's nonce cache; history: the triples of the
                        \* correctly signed launches so far, and whether the last
                        \* launch repeated one of them
    launch, pc, local, membership, sessions, prior, added
                        \* concurrent dispatch: per request its launch, position,
                        \* local variables and session; the users' groups; history:
                        \* the groups at the start and the groups each request added

vars == <<LTI_AUTHENTICATE, contexts, groupsOf, session, elevatedSeen, last,
          jin, jout, jfirst, japplied, rin, rout,
          rows, epc, eform, epk, ehist, nonceCache, replayed,
          launch, pc, local, membership, sessions, prior, added>>

pipelineVars == <<LTI_AUTHENTICATE, contexts, groupsOf, session, elevatedSeen, last>>
joinVars == <<jin, jout, jfirst, japplied>>
routeVars == <<rin, rout>>
enableVars == <<rows, epc, eform, epk, ehist>>
replayVars == <<nonceCache, replayed>>
stepVars == <<launch, pc, local, membership, sessions, prior, added>>

(***************************************************************************)
(* Bounds.                                                                 *)
(***************************************************************************)
MaxRoles == 2       \* longest role list of a launch
MaxContexts == 2    \* most LTICourseContext rows created
MaxExtra == 2       \* longest settings.LTI_EXTRA_PARAMETERS
MaxNonces == 3      \* distinct (consumer_key, nonce, timestamp) triples of the launches

Users == {"alice", "bob"}
Groups == {"g1", "g2"}
NoUser == "nobody"          \* Python None where a user is expected
StaffUser == "staff"        \* a user who signs in through the site's own login
Requests == {"r1", "r2"}    \* the requests handled at the same time

(***************************************************************************)
(* Text.                                                                   *)
(***************************************************************************)
UpperCase == <<"A", "B", "C", "D", "E", "F", "G", "H", "I", "J", "K", "L", "M", "N", "O", "P", "Q", "R", "S", "T", "U", "V", "W", "X", "Y", "Z">>
LowerCase == <<"a", "b", "c", "d", "e", "f", "g", "h", "i", "j", "k", "l", "m", "n", "o", "p", "q", "r", "s", "t", "u", "v", "w", "x", "y", "z">>

\* the lower-case letter of every upper-case letter
ToLower ==
    [c \in {UpperCase[i] : i \in DOMAIN UpperCase} |->
        LowerCase[CHOOSE i \in DOMAIN UpperCase : UpperCase[i] = c]]

lower_char(c) == IF c \in DOMAIN ToLower THEN ToLower[c] ELSE c

\* str.lower()
lower(s) == [i \in DOMAIN s |-> lower_char(s[i])]

\* Python's `sub in s` on strings
is_in(sub, s) ==
    \E i \in 1..(Len(s) - Len(sub) + 1) : SubSeq(s, i, i + Len(sub) - 1) = sub

\* all sequences over S of length at most n
RECURSIVE SeqsUpTo(_, _)
SeqsUpTo(S, n) ==
    IF n = 0 THEN {<<>>}
    ELSE LET shorter == SeqsUpTo(S, n - 1)
         IN shorter \cup {Append(q, x) : q \in shorter, x \in S}

kw_staff == <<"s", "t", "a", "f", "f">>
kw_instructor == <<"i", "n", "s", "t", "r", "u", "c", "t", "o", "r">>
kw_administrator == <<"a", "d", "m", "i", "n", "i", "s", "t", "r", "a", "t", "o", "r">>

role_Learner == <<"L", "e", "a", "r", "n", "e", "r">>
role_Instructor == <<"I", "n", "s", "t", "r", "u", "c", "t", "o", "r">>
role_TA_urn == <<"u", "r", "n", ":", "l", "t", "i", ":", "r", "o", "l", "e", ":", "i", "m", "s", "/", "l", "i", "s", "/", "T", "e", "a", "c", "h", "i", "n", "g", "A", "s", "s", "i", "s", "t", "a", "n", "t", ",", "I", "n", "s", "t", "r", "u", "c", "t", "o", "r">>
role_STAFF == <<"S", "T", "A", "F", "F">>
role_Administrator == <<"u", "r", "n", ":", "l", "t", "i", ":", "s", "y", "s", "r", "o", "l", "e", ":", "i", "m", "s", "/", "l", "i", "s", "/", "A", "d", "m", "i", "n", "i", "s", "t", "r", "a", "t", "o", "r">>
role_Student == <<"S", "t", "u", "d", "e", "n", "t">>
role_Mentor == <<"M", "e", "n", "t", "o", "r">>

s_embed == <<"e", "m", "b", "e", "d">>
s_Embed == <<"E", "m", "b", "e", "d">>
s_canvas == <<"c", "a", "n", "v", "a", "s">>
s_blackboard == <<"b", "l", "a", "c", "k", "b", "o", "a", "r", "d">>
s_Canvas == <<"C", "a", "n", "v", "a", "s">>
s_BbLearn == <<"B", "l", "a", "c", "k", "b", "o", "a", "r", "d", " ", "L", "e", "a", "r", "n">>
s_moodle == <<"m", "o", "o", "d", "l", "e">>
s_None == <<"N", "o", "n", "e">>
s_https == <<"h", "t", "t", "p", "s">>
s_http == <<"h", "t", "t", "p">>
s_host == <<"t", "o", "o", "l", ".", "e", "x", "a", "m", "p", "l", "e">>
s_embed_url == <<"a", "s", "s", "e", "t", "/", "e", "m", "b", "e", "d", "/">>
s_landing == <<"/", "l", "t", "i", "/", "l", "a", "n", "d", "i", "n", "g", "/">>
s_return == <<"h", "t", "t", "p", "s", ":", "/", "/", "x", "/", "y">>
s_return_param == <<"?", "r", "e", "t", "u", "r", "n", "_", "u", "r", "l", "=">>
k_intended == <<"e", "x", "t", "_", "c", "o", "n", "t", "e", "n", "t", "_", "i", "n", "t", "e", "n", "d", "e", "d", "_", "u", "s", "e">>
k_family == <<"t", "o", "o", "l", "_", "c", "o", "n", "s", "u", "m", "e", "r", "_", "i", "n", "f", "o", "_", "p", "r", "o", "d", "u", "c", "t", "_", "f", "a", "m", "i", "l", "y", "_", "c", "o", "d", "e">>
k_return == <<"l", "a", "u", "n", "c", "h", "_", "p", "r", "e", "s", "e", "n", "t", "a", "t", "i", "o", "n", "_", "r", "e", "t", "u", "r", "n", "_", "u", "r", "l">>
k_extra1 == <<"c", "u", "s", "t", "o", "m", "_", "i", "d">>
k_extra2 == <<"l", "i", "s", "_", "s", "i", "d">>
v_plain == <<"4", "2">>
v_amp == <<"a", "&", "b", "=", "c">>

\* the role strings launches are drawn from
RoleVocabulary ==
    {role_Learner, role_Instructor, role_TA_urn, role_STAFF, role_Administrator,
     role_Student, role_Mentor}

RoleLists == SeqsUpTo(RoleVocabulary, MaxRoles)

\* a course context as join_groups reads it: ctx.group and ctx.faculty_group
CourseBindings == [group : Groups, faculty_group : Groups]

(***************************************************************************)
(* LTIAuthMixin.join_groups                                                *)
(***************************************************************************)
\* lti.user_roles(): the role list of the launch
user_roles(lti) == lti.roles

\* the condition of the `if` in the loop, on the lower-cased role
role_is_elevated(role) ==
    \/ is_in(kw_staff, role)
    \/ is_in(kw_instructor, role)
    \/ is_in(kw_administrator, role)

\* the loop with the break one level out: it ends after the first role
faculty_loop_first_role_only(roles, ctx, groups) ==
    IF roles = <<>> THEN groups
    ELSE IF role_is_elevated(lower(Head(roles)))
         THEN groups \cup {ctx.faculty_group}
         ELSE groups

\* the loop without role.lower()
RECURSIVE faculty_loop_case_sensitive(_, _, _)
faculty_loop_case_sensitive(roles, ctx, groups) ==
    IF roles = <<>> THEN groups
    ELSE IF role_is_elevated(Head(roles))
         THEN groups \cup {ctx.faculty_group}
         ELSE faculty_loop_case_sensitive(Tail(roles), ctx, groups)

\* the for loop: the first matching role adds ctx.faculty_group and breaks
RECURSIVE faculty_loop(_, _, _)
faculty_loop(roles, ctx, groups) ==
    IF roles = <<>> THEN groups
    ELSE LET role == lower(Head(roles))
         IN IF role_is_elevated(role)
            THEN groups \cup {ctx.faculty_group}
            ELSE faculty_loop(Tail(roles), ctx, groups)

\* join_groups that sets the user's groups instead of adding to them
join_groups_replacing(lti, ctx, groups) ==
    faculty_loop(user_roles(lti), ctx, {ctx.group})

\* join_groups that leaves the member group when the user is already in it
join_groups_toggling(lti, ctx, groups) ==
    faculty_loop(user_roles(lti), ctx,
                 IF ctx.group \in groups THEN groups \ {ctx.group}
                 ELSE groups \cup {ctx.group})

\* join_groups(lti, ctx, user), as the new value of user.groups
join_groups(lti, ctx, groups) ==
    faculty_loop(user_roles(lti), ctx, groups \cup {ctx.group})

(***************************************************************************)
(* LTIAuthMixin.dispatch                                                   *)
(***************************************************************************)
\* the templates of the two failure responses, and the wrapped view's response
fail_auth == "lti_auth/fail_auth.html"
fail_course_configuration == "lti_auth/fail_course_configuration.html"
view_response == "super.dispatch"

\* where a launch points for its course context: nowhere (the parameter is
\* missing), at something that is no reference, or at a (group, faculty_group) row
ContextRefs ==
    {[kind |-> "missing", group |-> "g1", faculty_group |-> "g1"],
     [kind |-> "malformed", group |-> "g1", faculty_group |-> "g1"]}
    \cup [kind : {"ref"}, group : Groups, faculty_group : Groups]

\* the role lists launches through the pipeline carry
LaunchRoleLists ==
    {<<>>, <<role_Learner>>, <<role_Instructor>>, <<role_Learner, role_TA_urn>>}

LaunchRequests ==
    [user : Users, valid : BOOLEAN, context : ContextRefs, roles : LaunchRoleLists]

\* LTI(request_type, role_type) bound to the request
LTI(request) == [roles |-> request.roles, context |-> request.context]

\* authenticate(request=request, lti=lti): the user of a launch that verifies, else None
authenticate(request) == IF request.valid THEN request.user ELSE NoUser

\* the session after a launch has verified: the launch is kept in it
verified_session(sess) == [sess EXCEPT !.lti = TRUE]

\* lti.clear_session(request): drops the launch state kept in the session
clear_session(sess) == [sess EXCEPT !.lti = FALSE]

\* login(request, user)
login(sess, user) == [sess EXCEPT !.user = user]

\* lti.custom_course_context(): the enabled row the launch points at, or the
\* exception raised
custom_course_context(lti, ctxs) ==
    LET ref == lti.context
        binding == [group |-> ref.group, faculty_group |-> ref.faculty_group]
    IN  IF ref.kind = "missing" THEN [raised |-> "KeyError", ctx |-> binding]
        ELSE IF ref.kind = "malformed" THEN [raised |-> "ValueError", ctx |-> binding]
        ELSE IF ~ \E c \in ctxs : /\ c.group = ref.group
                                  /\ c.faculty_group = ref.faculty_group
                                  /\ c.enable
             THEN [raised |-> "DoesNotExist", ctx |-> binding]
        ELSE [raised |-> "", ctx |-> binding]

\* the exceptions the try block catches
caught == {"KeyError", "ValueError", "DoesNotExist"}

NoBinding == [group |-> "g1", faculty_group |-> "g1"]

\* lines 39-42: the launch did not verify
on_auth_failure(groups, sess) ==
    [groupsOf |-> groups,
     session |-> clear_session(sess),
     calls |-> <<"authenticate", "clear_session", "render_to_response">>,
     user |-> NoUser, raised |-> "", resolved |-> FALSE, context |-> NoBinding,
     response |-> fail_auth]

\* the except clause rendering the template of the other failure
on_course_failure_as_auth_failure(user, raised, groups, sess) ==
    [groupsOf |-> groups,
     session |-> clear_session(verified_session(sess)),
     calls |-> <<"authenticate", "custom_course_context", "clear_session",
                 "render_to_response">>,
     user |-> user, raised |-> raised, resolved |-> FALSE, context |-> NoBinding,
     response |-> fail_auth]

\* lines 47-51: the except clause
on_course_failure(user, raised, groups, sess) ==
    [groupsOf |-> groups,
     session |-> clear_session(verified_session(sess)),
     calls |-> <<"authenticate", "custom_course_context", "clear_session",
                 "render_to_response">>,
     user |-> user, raised |-> raised, resolved |-> FALSE, context |-> NoBinding,
     response |-> fail_course_configuration]

\* lines 53-59: join_groups, login and the wrapped view
on_success(lti, ctx, user, groups, sess) ==
    [groupsOf |-> [groups EXCEPT ![user] = join_groups(lti, ctx, @)],
     session |-> login(verified_session(sess), user),
     calls |-> <<"authenticate", "custom_course_context", "join_groups", "login",
                 "super.dispatch">>,
     user |-> user, raised |-> "", resolved |-> TRUE, context |-> ctx,
     response |-> view_response]

\* line 59 alone: LTI_AUTHENTICATE is absent or false
without_authentication(groups, sess) ==
    [groupsOf |-> groups,
     session |-> sess,
     calls |-> <<"super.dispatch">>,
     user |-> NoUser, raised |-> "", resolved |-> FALSE, context |-> NoBinding,
     response |-> view_response]

\* dispatch with the `if user is None` block left out: the user the request
\* names is joined and logged in whether or not the launch verified
dispatch_without_user_check(setting, request, ctxs, groups, sess) ==
    LET lti == LTI(request)
        found == custom_course_context(lti, ctxs)
    IN  IF setting = "true"
        THEN IF found.raised \in caught
             THEN on_course_failure(authenticate(request), found.raised, groups, sess)
             ELSE [on_success(lti, found.ctx, request.user, groups, sess)
                   EXCEPT !.user = authenticate(request)]
        ELSE without_authentication(groups, sess)

\* dispatch with the except clause falling through to join_groups and login
dispatch_without_course_check(setting, request, ctxs, groups, sess) ==
    LET lti == LTI(request)
        user == authenticate(request)
        found == custom_course_context(lti, ctxs)
    IN  IF setting = "true"
        THEN IF user = NoUser
             THEN on_auth_failure(groups, sess)
             ELSE [on_success(lti, found.ctx, user, groups, sess)
                   EXCEPT !.raised = found.raised,
                          !.resolved = found.raised \notin caught]
        ELSE without_authentication(groups, sess)

\* dispatch that keeps the session as it is when the launch does not verify
dispatch_without_clear_session(setting, request, ctxs, groups, sess) ==
    LET lti == LTI(request)
        user == authenticate(request)
        found == custom_course_context(lti, ctxs)
    IN  IF setting = "true"
        THEN IF user = NoUser
             THEN [on_auth_failure(groups, sess) EXCEPT !.session = sess]
             ELSE IF found.raised \in caught
                  THEN on_course_failure(user, found.raised, groups, sess)
                  ELSE on_success(lti, found.ctx, user, groups, sess)
        ELSE without_authentication(groups, sess)

\* dispatch(request): the groups and the session it leaves, the calls it makes
\* in order, the user authenticate returned, the context resolved, the response
dispatch(setting, request, ctxs, groups, sess) ==
    LET lti == LTI(request)
    IN  IF setting = "true"
        THEN LET user == authenticate(request)
             IN  IF user = NoUser
                 THEN on_auth_failure(groups, sess)
                 ELSE LET found == custom_course_context(lti, ctxs)
                      IN  IF found.raised \in caught
                          THEN on_course_failure(user, found.raised, groups, sess)
                          ELSE on_success(lti, found.ctx, user, groups, sess)
        ELSE without_authentication(groups, sess)

\* some role of the list, lower-cased, contains an elevated-role word
HasElevatedRole(roles) ==
    \E i \in DOMAIN roles :
        \E kw \in {kw_staff, kw_instructor, kw_administrator} : is_in(kw, lower(roles[i]))

\* the role lists of LaunchRoleLists that have an elevated role
ElevatedLaunchRoleLists == {roles \in LaunchRoleLists : HasElevatedRole(roles)}

\* a launch request handled by a view with LTIAuthMixin
Dispatch(request) ==
    \E r \in {dispatch(LTI_AUTHENTICATE, request, contexts, groupsOf, session)} :
    LET elevated == r.resolved /\ request.roles \in ElevatedLaunchRoleLists
    IN  /\ groupsOf' = r.groupsOf
        /\ session' = r.session
        /\ elevatedSeen' = IF elevated THEN elevatedSeen \cup {r.user} ELSE elevatedSeen
        /\ last' = [view |-> "launch", calls |-> r.calls, user |-> r.user,
                    raised |-> r.raised, resolved |-> r.resolved,
                    context |-> r.context, elevated |-> elevated,
                    response |-> r.response]
        /\ UNCHANGED <<LTI_AUTHENTICATE, contexts, joinVars, routeVars,
                       enableVars, replayVars, stepVars>>

(***************************************************************************)
(* LTICourseEnableView                                                     *)
(***************************************************************************)
\* the ids a form can post: a Group's id, or one that is no Group's
PostedGroupIds == Groups \cup {"no-such-group"}

\* the values of the form's lti-enable field ("absent": not posted)
PostedEnable == {"1", "0", "absent"}

EnablePosts == [group : PostedGroupIds, faculty_group : PostedGroupIds, enable : PostedEnable]

\* LTICourseContext.objects.get_or_create(group=, faculty_group=): the table with
\* the row in it
get_or_create(ctxs, group, faculty_group) ==
    IF \E c \in ctxs : c.group = group /\ c.faculty_group = faculty_group
    THEN ctxs
    ELSE ctxs \cup {[group |-> group, faculty_group |-> faculty_group, enable |-> FALSE]}

\* ctx.enable = ...; ctx.save()
save_enable(ctxs, group, faculty_group, enable) ==
    {IF c.group = group /\ c.faculty_group = faculty_group
     THEN [c EXCEPT !.enable = enable] ELSE c : c \in ctxs}

\* LTICourseEnableView.post, as the new table and the response
LTICourseEnableView_post(ctxs, form) ==
    IF form.group \notin Groups \/ form.faculty_group \notin Groups
    THEN [contexts |-> ctxs, response |-> "Http404"]
    ELSE [contexts |-> save_enable(get_or_create(ctxs, form.group, form.faculty_group),
                                   form.group, form.faculty_group, form.enable = "1"),
          response |-> "HttpResponseRedirect"]

\* LTICourseEnableView.dispatch: login_required, then post
LTICourseEnableView_dispatch(ctxs, sess, form) ==
    IF sess.user = NoUser
    THEN [contexts |-> ctxs, response |-> "redirect_to_login"]
    ELSE LTICourseEnableView_post(ctxs, form)

CourseEnable(form) ==
    \E r \in {LTICourseEnableView_dispatch(contexts, session, form)} :
        /\ Cardinality(r.contexts) <= MaxContexts
        /\ contexts' = r.contexts
        /\ last' = [view |-> "enable", calls |-> <<>>, user |-> session.user,
                    raised |-> "", resolved |-> FALSE, context |-> NoBinding, elevated |-> FALSE,
                    response |-> r.response]
        /\ UNCHANGED <<LTI_AUTHENTICATE, groupsOf, session, elevatedSeen,
                       joinVars, routeVars, enableVars, replayVars, stepVars>>

(***************************************************************************)
(* LTIRoutingView                                                          *)
(***************************************************************************)
\* Python None is the empty option, a value v the option <<v>>
None == <<>>
Some(v) == <<v>>

\* request.POST.get(key, default)
get(POST, key, default) == IF key \in DOMAIN POST THEN POST[key] ELSE default

\* request.POST.get(key): None when the request does not carry the key
get_or_None(POST, key) == IF key \in DOMAIN POST THEN Some(POST[key]) ELSE None

\* the text %s and {} put in for a value: 'None' for None
str(option) == IF option = None THEN s_None ELSE option[1]

\* reverse('lti-landing-page')
landing_page_url == s_landing

\* the default entry point
default_url == <<"/">>

\* custom_landing_page(self)
custom_landing_page(request) ==
    LET provider == lower(get(request.POST, k_family, <<>>))
    IN  is_in(s_canvas, provider) \/ is_in(s_blackboard, provider)

\* the for loop of add_extra_parameters
RECURSIVE extra_loop(_, _, _)
extra_loop(keys, POST, url) ==
    IF keys = <<>> THEN url
    ELSE LET key == Head(keys)
             value == get(POST, key, <<>>)
         IN  extra_loop(Tail(keys), POST, url \o key \o <<"=">> \o value \o <<"&">>)

\* add_extra_parameters opening the query with '?' whatever the url holds
add_extra_parameters_always_question(request, url) ==
    IF request.LTI_EXTRA_PARAMETERS = None THEN None
    ELSE Some(extra_loop(request.LTI_EXTRA_PARAMETERS[1], request.POST, url \o <<"?">>))

\* add_extra_parameters(self, url): None when settings has no LTI_EXTRA_PARAMETERS
add_extra_parameters(request, url) ==
    IF request.LTI_EXTRA_PARAMETERS = None THEN None
    ELSE LET opened == IF ~ is_in(<<"?">>, url) THEN url \o <<"?">> ELSE url \o <<"&">>
         IN  Some(extra_loop(request.LTI_EXTRA_PARAMETERS[1], request.POST, opened))

\* the branches of post with the landing page tested first
base_url_landing_first(request) ==
    IF custom_landing_page(request)
    THEN landing_page_url
    ELSE IF get(request.POST, k_intended, <<>>) = s_embed
    THEN request.scheme \o <<":", "/", "/">> \o request.host \o <<"/">>
            \o request.embed_url \o s_return_param
            \o str(get_or_None(request.POST, k_return))
    ELSE default_url

\* lines 87-98 of post: the url before add_extra_parameters
base_url(request) ==
    IF get(request.POST, k_intended, <<>>) = s_embed
    THEN request.scheme \o <<":", "/", "/">> \o request.host \o <<"/">>
            \o request.embed_url \o s_return_param
            \o str(get_or_None(request.POST, k_return))
    ELSE IF custom_landing_page(request)
    THEN landing_page_url
    ELSE default_url

\* post(self, request): the url before add_extra_parameters and the one given
\* to HttpResponseRedirect
post(request) ==
    LET url == base_url(request)
    IN  [base |-> url, url |-> add_extra_parameters(request, url)]

\* the fields a launch may carry, each absent (None) or with a value
PostChoices ==
    [intended : {None, Some(s_embed), Some(s_Embed)},
     family : {None, Some(s_canvas), Some(s_Canvas), Some(s_BbLearn), Some(s_moodle)},
     return : {None, Some(s_return), Some(<<>>)},
     extra1 : {None, Some(v_plain), Some(v_amp)},
     extra2 : {None, Some(v_plain)}]

\* request.POST of a choice of fields
POST_of(c) ==
    LET keyed == {<<k_intended, c.intended>>, <<k_family, c.family>>,
                  <<k_return, c.return>>, <<k_extra1, c.extra1>>,
                  <<k_extra2, c.extra2>>}
        present == {kv \in keyed : kv[2] # None}
    IN  [k \in {kv[1] : kv \in present} |->
            (CHOOSE kv \in present : kv[1] = k)[2][1]]

\* settings.LTI_EXTRA_PARAMETERS: not set, or a list of parameter names
ExtraSettings ==
    {None} \cup {Some(keys) : keys \in SeqsUpTo({k_extra1, k_extra2}, MaxExtra)}

RoutingRequests ==
    {[POST |-> POST_of(c), scheme |-> scheme, host |-> s_host,
      embed_url |-> s_embed_url, LTI_EXTRA_PARAMETERS |-> extra] :
        c \in PostChoices, scheme \in {s_http, s_https}, extra \in ExtraSettings}

(***************************************************************************)
(* Idle values of the variables a specification does not use.              *)
(***************************************************************************)
NoLast ==
    [view |-> "none", calls |-> <<>>, user |-> NoUser, raised |-> "", resolved |-> FALSE,
     context |-> NoBinding, elevated |-> FALSE, response |-> "none"]

IdlePipeline ==
    /\ LTI_AUTHENTICATE = "absent"
    /\ contexts = {}
    /\ groupsOf = [u \in Users |-> {}]
    /\ session = [user |-> NoUser, lti |-> FALSE]
    /\ elevatedSeen = {}
    /\ last = NoLast

IdleJoin ==
    /\ jin = [roles |-> <<>>, ctx |-> NoBinding, before |-> {}]
    /\ jout = {}
    /\ jfirst = {}
    /\ japplied = 0

IdleRoute ==
    /\ rin = [POST |-> <<>>, scheme |-> s_http, host |-> s_host,
              embed_url |-> s_embed_url, LTI_EXTRA_PARAMETERS |-> None]
    /\ rout = None

NoForm == [group |-> "g1", faculty_group |-> "g1", enable |-> "absent"]

IdleEnable ==
    /\ rows = <<>>
    /\ epc = [p \in Requests |-> "idle"]
    /\ eform = [p \in Requests |-> NoForm]
    /\ epk = [p \in Requests |-> 0]
    /\ ehist = [conflict |-> FALSE, saved |-> FALSE]

IdleReplay ==
    /\ nonceCache = {}
    /\ replayed = [seen |-> {}, now |-> FALSE]

NoLaunch ==
    [user |-> "alice", valid |-> FALSE,
     context |-> [kind |-> "missing", group |-> "g1", faculty_group |-> "g1"],
     roles |-> <<>>]

NoLocal == [user |-> NoUser, ctx |-> NoBinding]

IdleSteps ==
    /\ launch = [p \in Requests |-> NoLaunch]
    /\ pc = [p \in Requests |-> "idle"]
    /\ local = [p \in Requests |-> NoLocal]
    /\ membership = [u \in Users |-> {}]
    /\ sessions = [p \in Requests |-> [user |-> NoUser, lti |-> FALSE]]
    /\ prior = [u \in Users |-> {}]
    /\ added = [p \in Requests |-> {}]

(***************************************************************************)
(* The launch pipeline and the course-enable form.                         *)
(***************************************************************************)
Init ==
    /\ LTI_AUTHENTICATE \in {"absent", "false", "true"}
    /\ contexts = {}
    /\ groupsOf = [u \in Users |-> {}]
    /\ session \in [user : {NoUser, StaffUser}, lti : BOOLEAN]
    /\ elevatedSeen = {}
    /\ last = NoLast
    /\ IdleJoin
    /\ IdleRoute
    /\ IdleEnable
    /\ IdleReplay
    /\ IdleSteps

Next ==
    \/ \E request \in LaunchRequests : Dispatch(request)
    \/ \E form \in EnablePosts : CourseEnable(form)

Spec == Init /\ [][Next]_vars

(***************************************************************************)
(* join_groups on its own: the inputs are drawn in JoinInit, ApplyJoin     *)
(* calls join_groups on the groups the user has.                           *)
(***************************************************************************)
JoinInit ==
    /\ IdlePipeline
    /\ IdleRoute
    /\ IdleEnable
    /\ IdleReplay
    /\ IdleSteps
    /\ jin \in [roles : RoleLists, ctx : CourseBindings, before : SUBSET Groups]
    /\ jout = jin.before
    /\ jfirst = jin.before
    /\ japplied = 0

ApplyJoin ==
    /\ japplied < 2
    /\ jout' = join_groups(jin, jin.ctx, jout)
    /\ jfirst' = IF japplied = 0 THEN jout' ELSE jfirst
    /\ japplied' = japplied + 1
    /\ UNCHANGED <<jin, pipelineVars, routeVars, enableVars, replayVars, stepVars>>

JoinNext == ApplyJoin

SpecJoin == JoinInit /\ [][JoinNext]_vars

(***************************************************************************)
(* LTIRoutingView.post on its own: the request and the settings are drawn  *)
(* in RouteInit, RoutePost answers the request.                            *)
(***************************************************************************)
RouteInit ==
    /\ IdlePipeline
    /\ IdleJoin
    /\ IdleEnable
    /\ IdleReplay
    /\ IdleSteps
    /\ rin \in RoutingRequests
    /\ rout = None

RoutePost ==
    /\ rout = None
    /\ rout' = Some(post(rin))
    /\ UNCHANGED <<rin, pipelineVars, joinVars, enableVars, replayVars, stepVars>>

RouteNext == RoutePost

SpecRoute == RouteInit /\ [][RouteNext]_vars

(***************************************************************************)
(* LTICourseEnableView.post handled for several requests at once: every    *)
(* query of post is a step of its own, the rows carry a primary key (their *)
(* position in the table).                                                 *)
(***************************************************************************)
\* the primary key of the row of a (group, faculty_group) pair, 0 when none
find_row(table, group, faculty_group) ==
    IF \E i \in 1..Len(table) :
            table[i].group = group /\ table[i].faculty_group = faculty_group
    THEN CHOOSE i \in 1..Len(table) :
            table[i].group = group /\ table[i].faculty_group = faculty_group
    ELSE 0

\* the INSERT of get_or_create under the table's (group, faculty_group) key:
\* IntegrityError when the pair is already there
insert_row(table, group, faculty_group) ==
    IF find_row(table, group, faculty_group) # 0
    THEN [raised |-> "IntegrityError", table |-> table, pk |-> 0]
    ELSE [raised |-> "",
          table |-> Append(table, [group |-> group, faculty_group |-> faculty_group,
                                   enable |-> FALSE]),
          pk |-> Len(table) + 1]

\* ctx.enable set and ctx.save() left out
save_row_unsaved(table, pk, enable) == table

\* ctx.enable = ...; ctx.save(): UPDATE of the row with ctx's primary key
save_row(table, pk, enable) == [table EXCEPT ![pk].enable = enable]

\* the forms whose groups exist
ValidEnablePosts == {form \in EnablePosts : form.group \in Groups /\ form.faculty_group \in Groups}

\* lines 159-160: get_object_or_404 of both groups; Http404 ends the request
EnableStart(p, form) ==
    /\ epc[p] = "idle"
    /\ IF form \in ValidEnablePosts
       THEN /\ epc' = [epc EXCEPT ![p] = "get"]
            /\ eform' = [eform EXCEPT ![p] = form]
       ELSE UNCHANGED <<epc, eform>>
    /\ UNCHANGED <<rows, epk, ehist>>

\* line 162, get_or_create: the SELECT
EnableGet(p) ==
    /\ epc[p] = "get"
    /\ \E pk \in {find_row(rows, eform[p].group, eform[p].faculty_group)} :
          /\ epk' = [epk EXCEPT ![p] = pk]
          /\ epc' = [epc EXCEPT ![p] = IF pk = 0 THEN "create" ELSE "save"]
    /\ UNCHANGED <<rows, eform, ehist>>

\* line 162, get_or_create: the INSERT, and the SELECT again on IntegrityError
EnableCreate(p) ==
    /\ epc[p] = "create"
    /\ \E r \in {insert_row(rows, eform[p].group, eform[p].faculty_group)} :
          /\ Len(r.table) <= MaxContexts
          /\ rows' = r.table
          /\ epk' = [epk EXCEPT ![p] =
                        IF r.raised = "IntegrityError"
                        THEN find_row(rows, eform[p].group, eform[p].faculty_group)
                        ELSE r.pk]
          /\ ehist' = [ehist EXCEPT !.conflict = @ \/ r.raised = "IntegrityError"]
    /\ epc' = [epc EXCEPT ![p] = "save"]
    /\ UNCHANGED eform

\* lines 166-167 and the redirect
EnableSave(p) ==
    /\ epc[p] = "save"
    /\ rows' = save_row(rows, epk[p], eform[p].enable = "1")
    /\ epc' = [epc EXCEPT ![p] = "idle"]
    /\ epk' = [epk EXCEPT ![p] = 0]
    /\ eform' = [eform EXCEPT ![p] = NoForm]
    /\ ehist' = [ehist EXCEPT !.saved = TRUE]

EnableInit ==
    /\ IdlePipeline
    /\ IdleJoin
    /\ IdleRoute
    /\ IdleEnable
    /\ IdleReplay
    /\ IdleSteps

EnableNext ==
    /\ \E p \in Requests :
          \/ \E form \in EnablePosts : EnableStart(p, form)
          \/ EnableGet(p)
          \/ EnableCreate(p)
          \/ EnableSave(p)
    /\ UNCHANGED <<pipelineVars, joinVars, routeVars, replayVars, stepVars>>

SpecEnable == EnableInit /\ [][EnableNext]_vars

(***************************************************************************)
(* Launches that repeat an OAuth (consumer_key, nonce, timestamp) triple:  *)
(* dispatch as above, the request's verification computed by the verifier  *)
(* with its nonce cache.                                                   *)
(***************************************************************************)
\* the triples launches carry, all inside the skew window
Triples == 1..MaxNonces

\* the course context the site has enabled before the launches
ReplayContext == [group |-> "g1", faculty_group |-> "g2", enable |-> TRUE]

\* a launch as it arrives: its user, whether its signature is correct, its triple
SignedLaunches ==
    [user : Users, signed : BOOLEAN, triple : Triples,
     roles : {<<role_Learner>>, <<role_Instructor>>}]

\* the verifier: the reason it rejects the launch for, "" when it accepts
verify(raw, cache) ==
    IF ~ raw.signed THEN "bad_signature"
    ELSE IF raw.triple \in cache THEN "replayed_nonce"
    ELSE ""

\* the nonce cache after the verifier has seen the launch
remember(raw, cache) ==
    IF verify(raw, cache) = "" THEN cache \cup {raw.triple} ELSE cache

\* the request dispatch handles, as authenticate will find it
verified_request(raw, cache) ==
    [user |-> raw.user, valid |-> verify(raw, cache) = "",
     context |-> [kind |-> "ref", group |-> ReplayContext.group,
                  faculty_group |-> ReplayContext.faculty_group],
     roles |-> raw.roles]

ReplayLaunch(raw) ==
    \E r \in {dispatch(LTI_AUTHENTICATE, verified_request(raw, nonceCache),
                       contexts, groupsOf, session)} :
        /\ groupsOf' = r.groupsOf
        /\ session' = r.session
        /\ last' = [view |-> "launch", calls |-> r.calls, user |-> r.user,
                    raised |-> r.raised, resolved |-> r.resolved,
                    context |-> r.context, elevated |-> FALSE,
                    response |-> r.response]
        /\ nonceCache' = IF LTI_AUTHENTICATE = "true"
                         THEN remember(raw, nonceCache) ELSE nonceCache
        /\ replayed' = [seen |-> IF raw.signed THEN replayed.seen \cup {raw.triple}
                                 ELSE replayed.seen,
                        now |-> raw.signed /\ raw.triple \in replayed.seen]
        /\ UNCHANGED <<LTI_AUTHENTICATE, contexts, elevatedSeen,
                       joinVars, routeVars, enableVars, stepVars>>

ReplayInit ==
    /\ LTI_AUTHENTICATE \in {"absent", "false", "true"}
    /\ contexts = {ReplayContext}
    /\ groupsOf = [u \in Users |-> {}]
    /\ session = [user |-> NoUser, lti |-> FALSE]
    /\ elevatedSeen = {}
    /\ last = NoLast
    /\ IdleJoin
    /\ IdleRoute
    /\ IdleEnable
    /\ IdleReplay
    /\ IdleSteps

ReplayNext == \E raw \in SignedLaunches : ReplayLaunch(raw)

SpecReplay == ReplayInit /\ [][ReplayNext]_vars

(***************************************************************************)
(* LTIAuthMixin.dispatch handled for several requests at once: every call  *)
(* of dispatch and join_groups that reads or writes the session or the     *)
(* store is a step of its own, and a call that may fail either returns or   *)
(* raises.                                                                 *)
(***************************************************************************)
\* user.groups.set([group])
groups_set(groups, group) == {group}

\* user.groups.add(group)
groups_add(groups, group) == groups \cup {group}

\* the course contexts the site has enabled before the launches
StepContexts ==
    {[group |-> "g1", faculty_group |-> "g2", enable |-> TRUE],
     [group |-> "g2", faculty_group |-> "g1", enable |-> TRUE]}

\* the launches handled step by step; one that fails verification is cut
\* short before its context and roles are read
StepLaunches ==
    {request \in LaunchRequests :
        /\ request.context.kind # "malformed"
        /\ request.context.kind = "ref" =>
              (request.context.group = "g1" \/ request.context.faculty_group = "g1")
        /\ request.roles # <<>>
        /\ ~ request.valid => (request.context.kind = "missing"
                               /\ request.roles = <<role_Learner>>)}

\* lines 33-42
StepAuthenticate(p) ==
    /\ pc[p] = "start"
    /\ IF LTI_AUTHENTICATE = "true"
       THEN \E user \in {authenticate(launch[p])} :
               IF user = NoUser
               THEN /\ sessions' = [sessions EXCEPT ![p] = clear_session(@)]
                    /\ pc' = [pc EXCEPT ![p] = "fail_auth"]
                    /\ UNCHANGED local
               ELSE /\ sessions' = [sessions EXCEPT ![p] = verified_session(@)]
                    /\ local' = [local EXCEPT ![p].user = user]
                    /\ pc' = [pc EXCEPT ![p] = "resolve"]
       ELSE /\ pc' = [pc EXCEPT ![p] = "view"]
            /\ UNCHANGED <<sessions, local>>
    /\ UNCHANGED <<launch, membership, prior, added>>

\* lines 44-51
StepResolve(p) ==
    /\ pc[p] = "resolve"
    /\ \E found \in {custom_course_context(LTI(launch[p]), contexts)} :
          IF found.raised \in caught
          THEN /\ sessions' = [sessions EXCEPT ![p] = clear_session(@)]
               /\ pc' = [pc EXCEPT ![p] = "fail_course"]
               /\ UNCHANGED local
          ELSE /\ local' = [local EXCEPT ![p].ctx = found.ctx]
               /\ pc' = [pc EXCEPT ![p] = "add_group"]
               /\ UNCHANGED sessions
    /\ UNCHANGED <<launch, membership, prior, added>>

\* line 23
StepAddGroup(p) ==
    /\ pc[p] = "add_group"
    /\ membership' = [membership EXCEPT ![local[p].user] = groups_add(@, local[p].ctx.group)]
    /\ added' = [added EXCEPT ![p] = @ \cup (membership'[local[p].user]
                                              \ membership[local[p].user])]
    /\ pc' = [pc EXCEPT ![p] = "user_roles"]
    /\ UNCHANGED <<launch, local, sessions, prior>>

\* lines 24-28: lti.user_roles() returns the roles or raises; with the roles,
\* the loop finds an elevated role or ends
StepUserRoles(p) ==
    /\ pc[p] = "user_roles"
    /\ \E raises \in BOOLEAN :
          pc' = [pc EXCEPT ![p] =
                    IF raises THEN "raised"
                    ELSE IF faculty_loop(user_roles(LTI(launch[p])), local[p].ctx, {}) # {}
                    THEN "add_faculty"
                    ELSE "login"]
    /\ UNCHANGED <<launch, local, membership, sessions, prior, added>>

\* lines 29-30: the store adds the membership or raises
StepAddFaculty(p) ==
    /\ pc[p] = "add_faculty"
    /\ \E raises \in BOOLEAN :
          IF raises
          THEN /\ pc' = [pc EXCEPT ![p] = "raised"]
               /\ UNCHANGED <<membership, added>>
          ELSE /\ membership' = [membership EXCEPT ![local[p].user] =
                                    groups_add(@, local[p].ctx.faculty_group)]
               /\ added' = [added EXCEPT ![p] = @ \cup (membership'[local[p].user]
                                                         \ membership[local[p].user])]
               /\ pc' = [pc EXCEPT ![p] = "login"]
    /\ UNCHANGED <<launch, local, sessions, prior>>

\* line 57
StepLogin(p) ==
    /\ pc[p] = "login"
    /\ sessions' = [sessions EXCEPT ![p] = login(@, local[p].user)]
    /\ pc' = [pc EXCEPT ![p] = "view"]
    /\ UNCHANGED <<launch, local, membership, prior, added>>

\* line 59
StepView(p) ==
    /\ pc[p] = "view"
    /\ pc' = [pc EXCEPT ![p] = "done"]
    /\ UNCHANGED <<launch, local, membership, sessions, prior, added>>

StepInit ==
    /\ LTI_AUTHENTICATE \in {"absent", "false", "true"}
    /\ contexts = StepContexts
    /\ groupsOf = [u \in Users |-> {}]
    /\ session = [user |-> NoUser, lti |-> FALSE]
    /\ elevatedSeen = {}
    /\ last = NoLast
    /\ IdleJoin
    /\ IdleRoute
    /\ IdleEnable
    /\ IdleReplay
    /\ launch \in [Requests -> StepLaunches]
    /\ pc = [p \in Requests |-> "start"]
    /\ local = [p \in Requests |-> NoLocal]
    /\ prior \in {[u \in Users |-> {}], [u \in Users |-> {"g2"}]}
    /\ membership = prior
    /\ sessions = [p \in Requests |-> [user |-> NoUser, lti |-> FALSE]]
    /\ added = [p \in Requests |-> {}]

StepNext ==
    /\ \E p \in Requests :
          \/ StepAuthenticate(p)
          \/ StepResolve(p)
          \/ StepAddGroup(p)
          \/ StepUserRoles(p)
          \/ StepAddFaculty(p)
          \/ StepLogin(p)
          \/ StepView(p)
    /\ UNCHANGED <<pipelineVars, joinVars, routeVars, enableVars, replayVars>>

SpecSteps == StepInit /\ [][StepNext]_vars

(***************************************************************************)
(* Properties of the launch pipeline (Spec).                               *)
(***************************************************************************)
\* the handler that ran last is LTIAuthMixin.dispatch
Launched == last.view = "launch"

\* that dispatch made the call
Called(name) == \E i \in DOMAIN last.calls : last.calls[i] = name

\* the GroupSet of the launch that ran last: the member group, and the faculty
\* group when a role of the launch is elevated
GroupSet ==
    {last.context.group} \cup (IF last.elevated THEN {last.context.faculty_group} ELSE {})

\* C1: validation before trust. A launch changes group memberships or the
\* session's user, or calls join_groups or login, only when authenticate
\* returned a user for that request; the memberships changed and the user
\* logged in are that user's.
C1_ValidationBeforeTrust ==
    [][ Launched' =>
          LET changed == {u \in Users : groupsOf'[u] # groupsOf[u]}
          IN  (\/ changed # {}
               \/ session'.user # session.user
               \/ Called("join_groups")'
               \/ Called("login")')
              => /\ last'.user \in Users
                 /\ last'.calls[1] = "authenticate"
                 /\ changed \subseteq {last'.user}
                 /\ session'.user = last'.user ]_vars

C1_Witness ==
    /\ Launched
    /\ Called("login")
    /\ last.user \in Users
    /\ session.user = last.user
    /\ last.context.group \in groupsOf[last.user]

\* the wrapped view was reached after authenticate returned a user and
\* custom_course_context returned a context, in this order
ViewAfterBothStages ==
    /\ last.user \in Users
    /\ last.resolved
    /\ last.calls = <<"authenticate", "custom_course_context", "join_groups", "login",
                      "super.dispatch">>

\* C2 as stated: in every settings configuration the wrapped view is reached
\* only after verification and course-context resolution succeeded.
C2_FailClosedEverySetting ==
    (Launched /\ Called("super.dispatch")) => ViewAfterBothStages

\* C2, amended: with LTI_AUTHENTICATE set and true the wrapped view is reached
\* only after both stages succeeded, and a failed stage ends the request in its
\* failure view with no later stage run; with LTI_AUTHENTICATE absent or false
\* the wrapped view is the only call dispatch makes.
C2_FailClosedWhenAuthenticating ==
    Launched =>
        IF LTI_AUTHENTICATE = "true"
        THEN /\ Called("super.dispatch") => ViewAfterBothStages
             /\ ~ Called("super.dispatch") =>
                   /\ last.response \in {fail_auth, fail_course_configuration}
                   /\ last.response = fail_auth =>
                         /\ last.user = NoUser
                         /\ ~ Called("custom_course_context")
                   /\ last.response = fail_course_configuration =>
                         /\ last.user \in Users
                         /\ last.raised \in caught
                   /\ ~ Called("join_groups")
                   /\ ~ Called("login")
        ELSE last.calls = <<"super.dispatch">>

C2_Witness ==
    /\ Launched
    /\ LTI_AUTHENTICATE = "true"
    /\ Called("super.dispatch")
    /\ last.resolved

\* C3: when authenticate returns None, dispatch clears the session's launch
\* state, answers with the fail_auth template, and does nothing else: the
\* course context is not looked up, no membership changes, nobody is logged
\* in, the wrapped view is not dispatched.
C3_VerificationFailurePath ==
    [][ (Launched' /\ LTI_AUTHENTICATE = "true" /\ last'.user = NoUser) =>
          /\ last'.response = fail_auth
          /\ last'.response # fail_course_configuration
          /\ last'.response # view_response
          /\ last'.calls = <<"authenticate", "clear_session", "render_to_response">>
          /\ ~ session'.lti
          /\ session'.user = session.user
          /\ groupsOf' = groupsOf
          /\ contexts' = contexts
          /\ elevatedSeen' = elevatedSeen ]_vars

C3_Witness ==
    /\ Launched
    /\ LTI_AUTHENTICATE = "true"
    /\ last.response = fail_auth
    /\ session.user \in Users
    /\ \E u \in Users : groupsOf[u] # {}

C6_FacultyOnlyByElevatedRole ==
    \A u \in Users : \A c \in contexts :
        c.faculty_group \in groupsOf[u] => u \in elevatedSeen

\* C7 as stated: after a successful launch the user's memberships among the
\* context's two groups are exactly the GroupSet of that launch.
C7_ExactSynchronization ==
    (Launched /\ last.resolved) =>
        groupsOf[last.user] \cap {last.context.group, last.context.faculty_group}
            = GroupSet

\* C7, amended: after a successful launch the user's memberships among the
\* context's two groups are the GroupSet of that launch together with the
\* memberships among them the user had before; so they include the GroupSet,
\* and are exactly the GroupSet when the user had none of them outside it.
C7_AdditiveSynchronization ==
    [][ (Launched' /\ last'.resolved) =>
          LET two == {last'.context.group, last'.context.faculty_group}
              u == last'.user
          IN  /\ groupsOf'[u] \cap two = (groupsOf[u] \cap two) \cup GroupSet'
              /\ GroupSet' \subseteq groupsOf'[u] ]_vars

C7_Witness ==
    /\ Launched
    /\ last.resolved
    /\ ~ last.elevated
    /\ last.context.group # last.context.faculty_group
    /\ last.context.faculty_group \in groupsOf[last.user]

\* C8: a launch removes no membership; it changes the memberships of no other
\* user, and of its own user only in the context's group and faculty_group.
C8_AdditiveFrame ==
    [][ Launched' =>
          \A v \in Users :
              /\ groupsOf[v] \subseteq groupsOf'[v]
              /\ v # last'.user => groupsOf'[v] = groupsOf[v]
              /\ (groupsOf'[v] \ groupsOf[v])
                     \subseteq {last'.context.group, last'.context.faculty_group} ]_vars

C8_Witness ==
    /\ Launched
    /\ last.resolved
    /\ \E g \in groupsOf[last.user] :
           g \notin {last.context.group, last.context.faculty_group}
    /\ \E v \in Users : v # last.user /\ groupsOf[v] # {}

(***************************************************************************)
(* Properties of join_groups (SpecJoin).                                   *)
(***************************************************************************)
\* C5: join_groups adds ctx.group whatever the roles, and ctx.faculty_group
\* exactly when some role, lower-cased, contains staff, instructor or
\* administrator; Learner alone gives the member group only, Instructor and
\* the TeachingAssistant,Instructor URN give both.
C5_RoleMapping ==
    japplied = 1 =>
        /\ jout = jin.before \cup {jin.ctx.group}
                    \cup (IF HasElevatedRole(jin.roles)
                          THEN {jin.ctx.faculty_group} ELSE {})
        /\ jin.roles = <<role_Learner>> => jout = jin.before \cup {jin.ctx.group}
        /\ jin.roles \in {<<role_Instructor>>, <<role_TA_urn>>} =>
              jout = jin.before \cup {jin.ctx.group, jin.ctx.faculty_group}

C5_Witness ==
    /\ japplied = 1
    /\ Len(jin.roles) = 2
    /\ ~ role_is_elevated(lower(jin.roles[1]))
    /\ role_is_elevated(lower(jin.roles[2]))
    /\ jin.ctx.group # jin.ctx.faculty_group
    /\ jin.before = {}
    /\ jout = {jin.ctx.group, jin.ctx.faculty_group}

\* C9: a second join_groups with the same roles, context and user leaves the
\* user's groups as the first one left them.
C9_JoinIdempotent ==
    japplied = 2 => jout = jfirst

C9_Witness ==
    /\ japplied = 2
    /\ jfirst # jin.before
    /\ jout = jfirst
    /\ HasElevatedRole(jin.roles)

(***************************************************************************)
(* Properties of LTIRoutingView.post (SpecRoute).                          *)
(***************************************************************************)
\* the request carries ext_content_intended_use = 'embed'
EmbedIntended == k_intended \in DOMAIN rin.POST /\ rin.POST[k_intended] = s_embed

\* the product family code, lower-cased and empty when absent, contains
\* 'canvas' or 'blackboard'
NewTabIncapable ==
    LET family == IF k_family \in DOMAIN rin.POST THEN lower(rin.POST[k_family]) ELSE <<>>
    IN  is_in(s_canvas, family) \/ is_in(s_blackboard, family)

\* scheme://host/<embed_url>?return_url=
EmbedPrefix ==
    rin.scheme \o <<":", "/", "/">> \o rin.host \o <<"/">> \o rin.embed_url
        \o s_return_param

\* the base url is the embed url: it carries the launch's return url when the
\* launch has one
IsEmbedTarget(url) ==
    /\ Len(url) >= Len(EmbedPrefix)
    /\ SubSeq(url, 1, Len(EmbedPrefix)) = EmbedPrefix
    /\ k_return \in DOMAIN rin.POST => url = EmbedPrefix \o rin.POST[k_return]

\* C10: the base redirect target is the embed url with the return url when
\* ext_content_intended_use is 'embed', whatever the product family; else the
\* landing page when the product family contains canvas or blackboard; else
\* '/'. Exactly one of the three is chosen.
C10_RoutingPrecedence ==
    rout # None =>
        LET base == rout[1].base
        IN  /\ EmbedIntended => IsEmbedTarget(base)
            /\ (~ EmbedIntended /\ NewTabIncapable) => base = landing_page_url
            /\ (~ EmbedIntended /\ ~ NewTabIncapable) => base = default_url
            /\ Cardinality({t \in {"embed", "landing", "default"} :
                              \/ t = "embed" /\ IsEmbedTarget(base)
                              \/ t = "landing" /\ base = landing_page_url
                              \/ t = "default" /\ base = default_url}) = 1

C10_Witness ==
    /\ rout # None
    /\ EmbedIntended
    /\ NewTabIncapable
    /\ k_return \in DOMAIN rin.POST
    /\ rout[1].base = EmbedPrefix \o s_return

\* settings has LTI_EXTRA_PARAMETERS
ExtraConfigured == rin.LTI_EXTRA_PARAMETERS # None

\* the configured parameter names, none when the setting is absent
ConfiguredKeys ==
    IF ExtraConfigured THEN rin.LTI_EXTRA_PARAMETERS[1] ELSE <<>>

\* the inbound value of a parameter name, empty when the request lacks it
InboundValue(key) ==
    IF key \in DOMAIN rin.POST THEN rin.POST[key] ELSE <<>>

\* url starts with prefix
StartsWith(url, prefix) ==
    /\ Len(url) >= Len(prefix)
    /\ SubSeq(url, 1, Len(prefix)) = prefix

\* C11: every launch is answered with a redirect whose target starts with one
\* of the three base urls, and when settings has no LTI_EXTRA_PARAMETERS the
\* target is exactly the base url.
C11_BaseUrlUnchanged ==
    rout # None =>
        LET base == rout[1].base
            target == rout[1].url
        IN  /\ IsEmbedTarget(base) \/ base = landing_page_url \/ base = default_url
            /\ target # None
            /\ StartsWith(target[1], base)
            /\ ~ ExtraConfigured => target[1] = base

\* k1=v1&...&kn=vn& for the names from position i on
RECURSIVE KeyValueText(_, _)
KeyValueText(keys, i) ==
    IF i > Len(keys) THEN <<>>
    ELSE keys[i] \o <<"=">> \o InboundValue(keys[i]) \o <<"&">>
            \o KeyValueText(keys, i + 1)

\* '?' when the base url has none, '&' otherwise
Opener(base) ==
    IF \E i \in 1..Len(base) : base[i] = "?" THEN <<"&">> ELSE <<"?">>

\* C12: with LTI_EXTRA_PARAMETERS configured the redirect url is the base url,
\* then '?' or '&', then key=value& for each configured name in the configured
\* order, the value being the request's or empty; nothing else is appended.
C12_ExtraParameterCopy ==
    (rout # None /\ ExtraConfigured) =>
        /\ rout[1].url # None
        /\ rout[1].url[1] =
              rout[1].base \o Opener(rout[1].base) \o KeyValueText(ConfiguredKeys, 1)

C12_Witness ==
    /\ rout # None
    /\ EmbedIntended
    /\ ConfiguredKeys = <<k_extra2, k_extra1>>
    /\ k_extra2 \notin DOMAIN rin.POST
    /\ k_extra1 \in DOMAIN rin.POST
    /\ rout[1].url = Some(rout[1].base \o <<"&">> \o k_extra2 \o <<"=", "&">>
                            \o k_extra1 \o <<"=">> \o rin.POST[k_extra1] \o <<"&">>)

\* the pieces of text between occurrences of the separator
RECURSIVE SplitAt(_, _, _)
SplitAt(text, sep, piece) ==
    IF text = <<>> THEN <<piece>>
    ELSE IF Head(text) = sep
    THEN <<piece>> \o SplitAt(Tail(text), sep, <<>>)
    ELSE SplitAt(Tail(text), sep, Append(piece, Head(text)))

\* a key=value piece as a pair, split at its first '='
PairOf(piece) ==
    IF \E i \in 1..Len(piece) : piece[i] = "="
    THEN LET at == CHOOSE i \in 1..Len(piece) :
                      /\ piece[i] = "="
                      /\ \A j \in 1..(i - 1) : piece[j] # "="
         IN  <<SubSeq(piece, 1, at - 1), SubSeq(piece, at + 1, Len(piece))>>
    ELSE <<piece, <<>>>>

\* the key/value pairs a query string parses to, blank values kept
ParseQuery(query) ==
    LET pieces == SelectSeq(SplitAt(query, "&", <<>>), LAMBDA p : p # <<>>)
    IN  [i \in 1..Len(pieces) |-> PairOf(pieces[i])]

\* C13: the text appended to the base url parses back to exactly the
\* configured names, in order, each with exactly the request's value, whatever
\* characters the value holds.
C13_ValuesEncoded ==
    (rout # None /\ ExtraConfigured /\ rout[1].url # None) =>
        LET url == rout[1].url[1]
            appended == SubSeq(url, Len(rout[1].base) + 2, Len(url))
        IN  ParseQuery(appended) =
                [i \in 1..Len(ConfiguredKeys) |->
                    <<ConfiguredKeys[i], InboundValue(ConfiguredKeys[i])>>]

\* C14: a field the launch omits counts as the empty string when the redirect
\* is built: no product family is no landing page, no intended use is no
\* embed, a missing extra parameter is copied as empty, and an embed launch
\* without launch_presentation_return_url gets an empty return_url.
C14_MissingFieldsEmpty ==
    rout # None =>
        LET base == rout[1].base
        IN  /\ (k_intended \notin DOMAIN rin.POST) => ~ IsEmbedTarget(base)
            /\ (k_intended \notin DOMAIN rin.POST /\ k_family \notin DOMAIN rin.POST)
                  => base = default_url
            /\ (EmbedIntended /\ k_return \notin DOMAIN rin.POST) => base = EmbedPrefix
            /\ \A i \in 1..Len(ConfiguredKeys) :
                  (ConfiguredKeys[i] \notin DOMAIN rin.POST) =>
                      is_in(ConfiguredKeys[i] \o <<"=", "&">>, rout[1].url[1])

(***************************************************************************)
(* Properties of LTICourseEnableView (Spec).                               *)
(***************************************************************************)
\* C15: the LTICourseContext table changes only in a step taken under the
\* session of an administrative user; no step under an anonymous session or
\* under the session of a user logged in by an LTI launch changes it.
C15_AdminOnlyCourseEnable ==
    [][contexts' # contexts => session.user = StaffUser]_vars

\* the rows of a (group, faculty_group) pair
RowsOf(table, group, faculty_group) ==
    {i \in 1..Len(table) : table[i].group = group /\ table[i].faculty_group = faculty_group}

NoSessionNoMembership ==
    /\ groupsOf' = groupsOf
    /\ session'.user = session.user
    /\ session'.lti => session.lti

\* the launch just handled ended in the authentication failure view, with no
\* later stage run
EndedAsAuthFailure ==
    /\ last'.response = fail_auth
    /\ last'.user = NoUser
    /\ ~ Called("custom_course_context")'
    /\ ~ Called("join_groups")'
    /\ ~ Called("login")'

Succeeded(p) ==
    /\ LTI_AUTHENTICATE = "true"
    /\ pc[p] = "done"

\* the groups join_groups computes for the request's launch
ComputedGroups(p) == join_groups(LTI(launch[p]), local[p].ctx, {})

\* C18: a request whose join_groups raised (in lti.user_roles() or in adding
\* the faculty group) has not logged its user in, and, no other launch of
\* that user being handled, no group it added is still among the user's
\* groups.
C18_NoPartialCommit ==
    \A p \in Requests :
        pc[p] = "raised" =>
            /\ sessions[p].user = NoUser
            /\ (\A q \in Requests \ {p} : ~ launch[q].valid \/ launch[q].user # local[p].user)
                  => added[p] \cap membership[local[p].user] = {}

\* C19: no step removes a group a user had; once both requests have ended
\* without a raise, every user's groups are the prior ones and the computed
\* groups of that user's successful launches; and a request's session holds
\* nobody or the user verified for that request, who is logged in when the
\* request reaches the view.
C19_ConcurrentLaunchesUnion ==
    /\ \A u \in Users : prior[u] \subseteq membership[u]
    /\ (\A p \in Requests : pc[p] \in {"done", "fail_auth", "fail_course"}) =>
          \A u \in Users :
              membership[u] = prior[u] \cup
                  UNION {ComputedGroups(p) : p \in {q \in Requests :
                                                      Succeeded(q) /\ local[q].user = u}}
    /\ \A p \in Requests :
          /\ sessions[p].user \in {NoUser, authenticate(launch[p])}
          /\ Succeeded(p) => sessions[p].user \in Users

\* two launches of alice, a Learner one and an Instructor one for different
\* contexts, both at the view
C19_Witness ==
    /\ \A p \in Requests : Succeeded(p) /\ local[p].user = "alice"
    /\ launch["r1"].roles = <<role_Learner>>
    /\ launch["r2"].roles = <<role_Instructor>>
    /\ local["r1"].ctx # local["r2"].ctx
    /\ prior["alice"] = {}
    /\ membership["alice"] = {"g1", "g2"}
    /\ added["r1"] = {"g1"}
    /\ added["r2"] = {"g2"}
    /\ \A p \in Requests : sessions[p].user = "alice"

====
